---- MODULE Spec2Model ----
(***************************************************************************)
(* Model of the broker factory (src/broker/broker_factory.py) and of the   *)
(* Webull adapter (src/broker/webull/webull_broker.py).                    *)
(*                                                                         *)
(* The adapter is a pass-through: its only durable state is the account    *)
(* identifier resolved at construction.  Every public operation is one     *)
(* action.  The vendor is the environment: each action draws the vendor's  *)
(* answers from small sets, runs the method as the code runs it, and       *)
(* records in lastOp the arguments, the vendor calls actually made (with   *)
(* the answer each one got), the value returned and the exception that     *)
(* left the method, if any.  The caller is single-threaded and blocking:   *)
(* it starts an operation only when idle (lastOp = NoOp), the operation    *)
(* runs to completion, and Resume is the caller taking the outcome.        *)
(*                                                                         *)
(* Numbers.  Python floats are modelled as exact fractions <<n, d>> with   *)
(* d > 0, so that fractional amounts, float division and int() truncation  *)
(* toward zero are computed, not assumed.  Python dicts are functions      *)
(* whose DOMAIN is the set of keys present; dict.get is Get.  None for a   *)
(* string-valued slot is the string None; an optional float is a sequence  *)
(* of length 0 (None) or 1.                                                *)
(***************************************************************************)
EXTENDS Integers, Sequences, FiniteSets, TLC

VARIABLES broker, lastOp

vars == <<broker, lastOp>>

(***************************************************************************)
(* Bounds                                                                  *)
(***************************************************************************)
MaxHoldings == 2

(***************************************************************************)
(* Python values                                                           *)
(***************************************************************************)
None == "None"

\* truthiness of an Optional[str]: None and "" are falsy
Truthy(s) == s # None /\ s # ""

\* dict.get(key, default)
Get(d, k, default) == IF k \in DOMAIN d THEN d[k] ELSE default

Abs(n) == IF n < 0 THEN -n ELSE n

\* int(n / d) for integers n, d # 0: truncation toward zero
TruncDiv(n, d) ==
    IF (n < 0) = (d < 0) THEN Abs(n) \div Abs(d) ELSE -(Abs(n) \div Abs(d))

Num(n) == <<n, 1>>

Zero == Num(0)

IsZero(x) == x[1] = 0

Positive(x) == x[1] > 0

\* int(x) of a float
PyInt(x) == TruncDiv(x[1], x[2])

\* a / b of two floats, b # 0 (the caller raises ZeroDivisionError otherwise)
PyDiv(a, b) ==
    IF b[1] > 0 THEN <<a[1] * b[2], a[2] * b[1]>>
                ELSE <<-(a[1] * b[2]), -(a[2] * b[1])>>

(***************************************************************************)
(* Vendor responses and the trace of vendor calls                          *)
(***************************************************************************)
OK == 200

Statuses == {OK, 500}

\* the SDK call raised
Raised == [kind |-> "raise"]

Resp(status, body) == [kind |-> "resp", status_code |-> status, body |-> body]

Call(api, arg, resp) == [api |-> api, arg |-> arg, resp |-> resp]

\* outcome of a method: value returned, exception that left it, vendor calls
Outcome(ret, exc, calls) == [ret |-> ret, exc |-> exc, calls |-> calls]

NoExc == "none"

(***************************************************************************)
(* WebullBroker.__init__ : account identifier resolution                   *)
(***************************************************************************)
AccountEntries ==
    { [account_id |-> "S1"], [account_id |-> "L1"],
      [account_id |-> ""], [account_type |-> "CASH"] }

AccountBodies ==
    {<<>>} \cup {<<e>> : e \in AccountEntries}
           \cup {<<[account_id |-> "S1"], [account_id |-> "X2"]>>,
                 <<[account_type |-> "CASH"], [account_id |-> "X2"]>>}

AccountResponses ==
    {Raised} \cup {Resp(s, b) : s \in Statuses, b \in AccountBodies}

\* mutant: the status code of the lookup is not checked
FirstAccountId_anyStatus(resp, account_id) ==
    IF Len(resp.body) > 0
    THEN Get(resp.body[1], "account_id", None)
    ELSE account_id

\* lines 55-58 / 64-67: the first entry's account_id of a 200, non-empty body
FirstAccountId(resp, account_id) ==
    IF resp.status_code = OK /\ Len(resp.body) > 0
    THEN Get(resp.body[1], "account_id", None)
    ELSE account_id

WebullBroker_init(account_id, subsResp, listResp) ==
    IF Truthy(account_id)
    THEN Outcome(account_id, NoExc, <<>>)
    ELSE
      LET c1 == Call("get_app_subscriptions", None, subsResp) IN
      IF subsResp = Raised
      THEN Outcome(None, "VendorError", <<c1>>)
      ELSE
        LET id1 == FirstAccountId(subsResp, account_id) IN
        IF Truthy(id1)
        THEN Outcome(id1, NoExc, <<c1>>)
        ELSE
          LET c2 == Call("get_account_list", "", listResp) IN
          IF listResp = Raised
          THEN Outcome(None, "VendorError", <<c1, c2>>)
          ELSE
            LET id2 == FirstAccountId(listResp, id1) IN
            IF Truthy(id2)
            THEN Outcome(id2, NoExc, <<c1, c2>>)
            ELSE Outcome(None, "ValueError", <<c1, c2>>)

(***************************************************************************)
(* create_broker                                                           *)
(***************************************************************************)
BrokerTypes == {"alpaca", "robinhood", "webull", "etrade"}

Credentials == {None, "", "k"}

AccountIdConfigs == {None, "", "A1"}

Configs ==
    [ broker_type        : BrokerTypes,
      alpaca_api_key     : Credentials,
      alpaca_api_secret  : Credentials,
      robinhood_username : Credentials,
      robinhood_password : Credentials,
      webull_app_key     : Credentials,
      webull_app_secret  : Credentials,
      webull_account_id  : AccountIdConfigs ]

\* result of the factory: the adapter classes whose constructor was invoked,
\* the account identifier of the adapter returned, the exception, the calls
Built(constructed, account_id, exc, calls) ==
    [constructed |-> constructed, ret |-> account_id, exc |-> exc, calls |-> calls]

\* mutant: the Webull credential check demands only one of the two
create_broker_oneCredential(config, subsResp, listResp) ==
    IF config.broker_type = "alpaca"
    THEN IF ~Truthy(config.alpaca_api_key) \/ ~Truthy(config.alpaca_api_secret)
         THEN Built(<<>>, None, "ValueError", <<>>)
         ELSE Built(<<"AlpacaBroker">>, None, NoExc, <<>>)
    ELSE IF config.broker_type = "robinhood"
    THEN IF ~Truthy(config.robinhood_username) \/ ~Truthy(config.robinhood_password)
         THEN Built(<<>>, None, "ValueError", <<>>)
         ELSE Built(<<"RobinhoodBroker">>, None, NoExc, <<>>)
    ELSE IF config.broker_type = "webull"
    THEN IF ~Truthy(config.webull_app_key) /\ ~Truthy(config.webull_app_secret)
         THEN Built(<<>>, None, "ValueError", <<>>)
         ELSE LET w == WebullBroker_init(config.webull_account_id, subsResp, listResp)
              IN  Built(<<"WebullBroker">>, w.ret, w.exc, w.calls)
    ELSE Built(<<>>, None, "ValueError", <<>>)

create_broker(config, subsResp, listResp) ==
    IF config.broker_type = "alpaca"
    THEN IF ~Truthy(config.alpaca_api_key) \/ ~Truthy(config.alpaca_api_secret)
         THEN Built(<<>>, None, "ValueError", <<>>)
         ELSE Built(<<"AlpacaBroker">>, None, NoExc, <<>>)
    ELSE IF config.broker_type = "robinhood"
    THEN IF ~Truthy(config.robinhood_username) \/ ~Truthy(config.robinhood_password)
         THEN Built(<<>>, None, "ValueError", <<>>)
         ELSE Built(<<"RobinhoodBroker">>, None, NoExc, <<>>)
    ELSE IF config.broker_type = "webull"
    THEN IF ~Truthy(config.webull_app_key) \/ ~Truthy(config.webull_app_secret)
         THEN Built(<<>>, None, "ValueError", <<>>)
         ELSE LET w == WebullBroker_init(config.webull_account_id, subsResp, listResp)
              IN  Built(<<"WebullBroker">>, w.ret, w.exc, w.calls)
    ELSE Built(<<>>, None, "ValueError", <<>>)

(***************************************************************************)
(* Vendor payloads for the adapter's operations                            *)
(***************************************************************************)
Symbols == {"AAPL", "MSFT"}

InstrumentBodies ==
    { <<>>,
      <<[symbol |-> "AAPL"]>>,
      <<[instrument_id |-> ""]>>,
      <<[instrument_id |-> "I1"]>>,
      <<[instrument_id |-> "I1"], [instrument_id |-> "I2"]>> }

InstrumentResponses ==
    {Raised} \cup {Resp(OK, b) : b \in InstrumentBodies}
             \cup {Resp(500, <<[instrument_id |-> "I1"]>>)}

\* holdings as the vendor reports them: any key may be missing
Holdings ==
    { [symbol |-> "AAPL", qty |-> Num(10), last_price |-> Num(100), market_value |-> Num(1000)],
      [symbol |-> "AAPL", qty |-> Num(10), last_price |-> Num(150), market_value |-> Num(1500)],
      [symbol |-> "AAPL", qty |-> Num(5),  last_price |-> Zero,     market_value |-> Zero],
      [symbol |-> "AAPL", qty |-> Num(5),  last_price |-> Num(-10), market_value |-> Num(-50)],
      [symbol |-> "AAPL", qty |-> Num(5)],
      [symbol |-> "MSFT", qty |-> Num(3),  last_price |-> <<5, 2>>, market_value |-> <<15, 2>>],
      [symbol |-> "MSFT", qty |-> Zero,    last_price |-> Num(40),  market_value |-> Zero],
      [symbol |-> "MSFT", qty |-> Num(-2), last_price |-> Num(40)],
      [symbol |-> "MSFT", last_price |-> Num(40), market_value |-> Num(40)],
      [symbol |-> "",     qty |-> Num(1),  last_price |-> Num(10),  market_value |-> Num(10)],
      [qty |-> Num(1), last_price |-> Num(10), market_value |-> Num(10)] }

HoldingLists == UNION {[1..n -> Holdings] : n \in 0..MaxHoldings}

PositionBodies ==
    {[holdings |-> hs] : hs \in HoldingLists} \cup {[account_id |-> "A1"]}

PositionResponses ==
    {Raised} \cup {Resp(s, b) : s \in Statuses, b \in PositionBodies}

OrderResponses ==
    {Raised} \cup {Resp(s, b) : s \in Statuses,
                               b \in {[order_id |-> "O1"], [client_order_id |-> "c1"]}}

BalanceFields == {"stock_power", "available_to_withdraw", "settled_cash", "total_cash"}

CashValues == {Zero, Num(500), Num(1000)}

BalanceBodies == UNION {[D -> CashValues] : D \in SUBSET BalanceFields}

BalanceResponses ==
    {Raised} \cup {Resp(OK, b) : b \in BalanceBodies}
             \cup {Resp(500, b) : b \in {[D \in {} |-> Zero], [total_cash |-> Num(1000)]}}

\* dollar amounts handed to buy, share quantities handed to sell
Amounts == {Num(1000), Num(149), Num(100), Num(30), <<1, 2>>, Zero, Num(-200)}

Quantities == {Num(5), <<11, 2>>, <<1, 2>>, Zero, <<-1, 2>>, Num(-5)}

(***************************************************************************)
(* WebullBroker._get_instrument_id                                         *)
(***************************************************************************)
\* mutant: the status code of the instrument lookup is not checked
get_instrument_id_anyStatus(symbol, resp) ==
    LET c == Call("get_instrument", symbol, resp) IN
    IF resp = Raised
    THEN Outcome(None, NoExc, <<c>>)
    ELSE IF Len(resp.body) > 0
         THEN Outcome(Get(resp.body[1], "instrument_id", None), NoExc, <<c>>)
         ELSE Outcome(None, NoExc, <<c>>)

get_instrument_id(symbol, resp) ==
    LET c == Call("get_instrument", symbol, resp) IN
    IF resp = Raised
    THEN Outcome(None, NoExc, <<c>>)
    ELSE IF resp.status_code = OK /\ Len(resp.body) > 0
         THEN Outcome(Get(resp.body[1], "instrument_id", None), NoExc, <<c>>)
         ELSE Outcome(None, NoExc, <<c>>)

(***************************************************************************)
(* WebullBroker.get_current_allocation                                     *)
(***************************************************************************)
Allocation(symbol, quantity, current_price, market_value) ==
    [symbol |-> symbol, quantity |-> quantity,
     current_price |-> current_price, market_value |-> market_value]

\* mutant: the last price is not checked
KeepHolding_noPrice(holding) ==
    /\ Positive(Get(holding, "qty", Zero))
    /\ Truthy(Get(holding, "symbol", None))

\* line 121
KeepHolding(holding) ==
    /\ Positive(Get(holding, "qty", Zero))
    /\ Truthy(Get(holding, "symbol", None))
    /\ Positive(Get(holding, "last_price", Zero))

RECURSIVE Allocations(_, _)
\* lines 115-127: the loop over holdings from index i on
Allocations(holdings, i) ==
    IF i > Len(holdings) THEN <<>>
    ELSE LET holding == holdings[i] IN
         IF KeepHolding(holding)
         THEN <<Allocation(Get(holding, "symbol", None),
                           Get(holding, "qty", Zero),
                           Get(holding, "last_price", Zero),
                           Get(holding, "market_value", Zero))>>
              \o Allocations(holdings, i + 1)
         ELSE Allocations(holdings, i + 1)

get_current_allocation(account_id, resp) ==
    LET c == Call("get_account_position", account_id, resp) IN
    IF resp = Raised
    THEN Outcome(<<>>, "VendorError", <<c>>)
    ELSE IF resp.status_code # OK
         THEN Outcome(<<>>, NoExc, <<c>>)
         ELSE Outcome(Allocations(Get(resp.body, "holdings", <<>>), 1), NoExc, <<c>>)

(***************************************************************************)
(* WebullBroker.get_account_cash                                           *)
(***************************************************************************)
\* Python's  x or y  on numbers
PyOr(x, y) == IF IsZero(x) THEN y ELSE x

\* mutant: total_cash is preferred over settled_cash
get_account_cash_totalFirst(account_id, resp) ==
    LET c == Call("get_account_balance", account_id, resp) IN
    IF resp = Raised
    THEN Outcome(Zero, "VendorError", <<c>>)
    ELSE IF resp.status_code # OK
         THEN Outcome(Zero, "ValueError", <<c>>)
         ELSE LET balance_data == resp.body
                  cash == PyOr(Get(balance_data, "stock_power", Zero),
                          PyOr(Get(balance_data, "available_to_withdraw", Zero),
                          PyOr(Get(balance_data, "total_cash", Zero),
                          PyOr(Get(balance_data, "settled_cash", Zero), Zero))))
              IN  Outcome(cash, NoExc, <<c>>)

get_account_cash(account_id, resp) ==
    LET c == Call("get_account_balance", account_id, resp) IN
    IF resp = Raised
    THEN Outcome(Zero, "VendorError", <<c>>)
    ELSE IF resp.status_code # OK
         THEN Outcome(Zero, "ValueError", <<c>>)
         ELSE LET balance_data == resp.body
                  cash == PyOr(Get(balance_data, "stock_power", Zero),
                          PyOr(Get(balance_data, "available_to_withdraw", Zero),
                          PyOr(Get(balance_data, "settled_cash", Zero),
                          PyOr(Get(balance_data, "total_cash", Zero), Zero))))
              IN  Outcome(cash, NoExc, <<c>>)

(***************************************************************************)
(* Orders.  The uuid suffix of client_order_id is left out: the identifier *)
(* is modelled by its prefix and symbol.                                   *)
(***************************************************************************)
StockOrder(account_id, prefix, symbol, instrument_id, side, qty) ==
    [account_id |-> account_id,
     stock_order |-> [client_order_id |-> <<prefix, symbol>>,
                      instrument_id   |-> instrument_id,
                      side            |-> side,
                      tif             |-> "DAY",
                      order_type      |-> "MARKET",
                      qty             |-> qty]]

\* lines 160-169 / 240-249: submit and turn the response into a boolean
PlaceOrder(order, resp, calls) ==
    LET c == Call("place_order_v2", order, resp) IN
    IF resp = Raised
    THEN Outcome(FALSE, "VendorError", calls \o <<c>>)
    ELSE Outcome(resp.status_code = OK, NoExc, calls \o <<c>>)

\* mutant: no outer except clause
CatchAll_missing(body) == body

\* the outer  except Exception: return False  of buy and sell
CatchAll(body) ==
    IF body.exc # NoExc THEN Outcome(FALSE, NoExc, body.calls) ELSE body

(***************************************************************************)
(* WebullBroker.sell                                                       *)
(***************************************************************************)
SellBody(account_id, symbol, quantity, instrResp, orderResp) ==
    LET i == get_instrument_id(symbol, instrResp) IN
    IF ~Truthy(i.ret)
    THEN Outcome(FALSE, NoExc, i.calls)
    ELSE PlaceOrder(StockOrder(account_id, "sell", symbol, i.ret, "SELL", PyInt(quantity)),
                    orderResp, i.calls)

sell(account_id, symbol, quantity, instrResp, orderResp) ==
    CatchAll(SellBody(account_id, symbol, quantity, instrResp, orderResp))

(***************************************************************************)
(* WebullBroker.buy                                                        *)
(***************************************************************************)
EstimatedPrice == Num(50)

Max(a, b) == IF a >= b THEN a ELSE b

RECURSIVE ScanPrice_noBreak(_, _, _, _)
\* mutant: the loop does not break at the first positive price
ScanPrice_noBreak(holdings, symbol, i, last_price) ==
    IF i > Len(holdings) THEN last_price
    ELSE IF Get(holdings[i], "symbol", None) = symbol
         THEN ScanPrice_noBreak(holdings, symbol, i + 1,
                                <<Get(holdings[i], "last_price", Zero)>>)
         ELSE ScanPrice_noBreak(holdings, symbol, i + 1, last_price)

RECURSIVE ScanPrice(_, _, _, _)
\* lines 191-195: last_price after the loop over holdings from index i on
ScanPrice(holdings, symbol, i, last_price) ==
    IF i > Len(holdings) THEN last_price
    ELSE IF Get(holdings[i], "symbol", None) = symbol
         THEN LET p == Get(holdings[i], "last_price", Zero) IN
              IF Positive(p) THEN <<p>>
                             ELSE ScanPrice(holdings, symbol, i + 1, <<p>>)
         ELSE ScanPrice(holdings, symbol, i + 1, last_price)

\* lines 185-197: the inner try; an exception of the lookup leaves None
PositionPrice(symbol, resp) ==
    IF resp = Raised THEN <<>>
    ELSE IF resp.status_code = OK
         THEN ScanPrice(Get(resp.body, "holdings", <<>>), symbol, 1, <<>>)
         ELSE <<>>

\* lines 202-217: the share count of the estimate-or-position branch
BranchQuantity(amount, last_price) ==
    IF last_price = <<>> \/ IsZero(last_price[1])
    THEN Max(1, PyInt(PyDiv(amount, EstimatedPrice)))
    ELSE Max(1, PyInt(PyDiv(amount, last_price[1])))

\* line 219: quantity = int(amount / last_price) overwrites the share count
\* of the branch; the division raises on None and on 0.0
Line219(quantity, amount, last_price) ==
    IF last_price = <<>> THEN [exc |-> "TypeError", val |-> quantity]
    ELSE IF IsZero(last_price[1])
         THEN [exc |-> "ZeroDivisionError", val |-> quantity]
         ELSE [exc |-> NoExc, val |-> PyInt(PyDiv(amount, last_price[1]))]

BuyBody(account_id, symbol, amount, instrResp, posResp, orderResp) ==
    LET i == get_instrument_id(symbol, instrResp) IN
    IF ~Truthy(i.ret)
    THEN Outcome(FALSE, NoExc, i.calls)
    ELSE
      LET calls      == i.calls \o <<Call("get_account_position", account_id, posResp)>>
          last_price == PositionPrice(symbol, posResp)
          quantity   == Line219(BranchQuantity(amount, last_price), amount, last_price)
      IN  IF quantity.exc # NoExc
          THEN Outcome(FALSE, quantity.exc, calls)
          ELSE IF quantity.val = 0
               THEN Outcome(FALSE, NoExc, calls)
               ELSE PlaceOrder(StockOrder(account_id, "buy", symbol, i.ret, "BUY", quantity.val),
                               orderResp, calls)

buy(account_id, symbol, amount, instrResp, posResp, orderResp) ==
    CatchAll(BuyBody(account_id, symbol, amount, instrResp, posResp, orderResp))

(***************************************************************************)
(* State machine                                                           *)
(***************************************************************************)
NoOp == [op |-> "none"]

Init ==
    /\ broker = None
    /\ lastOp = NoOp

\* one call of the factory; a Webull adapter that was returned replaces the
\* adapter the caller holds.  Only the Webull branch talks to the vendor.
DoCreateBroker(config, subsResp, listResp) ==
    LET r == create_broker(config, subsResp, listResp) IN
    /\ lastOp' = [op |-> "create_broker", config |-> config,
                  constructed |-> r.constructed, ret |-> r.ret,
                  exc |-> r.exc, calls |-> r.calls]
    /\ broker' = IF r.exc = NoExc /\ config.broker_type = "webull"
                 THEN r.ret ELSE broker

CreateBroker ==
    /\ lastOp = NoOp
    /\ \E config \in Configs :
          IF config.broker_type = "webull"
          THEN \E subsResp \in AccountResponses, listResp \in AccountResponses :
                  DoCreateBroker(config, subsResp, listResp)
          ELSE DoCreateBroker(config, Raised, Raised)

\* the operations below need an adapter
HasBroker == Truthy(broker)

Called(op, args, r) ==
    [op |-> op, args |-> args, ret |-> r.ret, exc |-> r.exc, calls |-> r.calls]

Buy ==
    /\ lastOp = NoOp
    /\ HasBroker
    /\ \E symbol \in Symbols, amount \in Amounts, instrResp \in InstrumentResponses,
          posResp \in PositionResponses, orderResp \in OrderResponses :
          lastOp' = Called("buy", [symbol |-> symbol, amount |-> amount],
                           buy(broker, symbol, amount, instrResp, posResp, orderResp))
    /\ UNCHANGED broker

Sell ==
    /\ lastOp = NoOp
    /\ HasBroker
    /\ \E symbol \in Symbols, quantity \in Quantities,
          instrResp \in InstrumentResponses, orderResp \in OrderResponses :
          lastOp' = Called("sell", [symbol |-> symbol, quantity |-> quantity],
                           sell(broker, symbol, quantity, instrResp, orderResp))
    /\ UNCHANGED broker

GetCurrentAllocation ==
    /\ lastOp = NoOp
    /\ HasBroker
    /\ \E resp \in PositionResponses :
          lastOp' = Called("get_current_allocation", <<>>,
                           get_current_allocation(broker, resp))
    /\ UNCHANGED broker

GetAccountCash ==
    /\ lastOp = NoOp
    /\ HasBroker
    /\ \E resp \in BalanceResponses :
          lastOp' = Called("get_account_cash", <<>>, get_account_cash(broker, resp))
    /\ UNCHANGED broker

\* the caller takes the outcome of the operation that completed
Resume ==
    /\ lastOp # NoOp
    /\ lastOp' = NoOp
    /\ UNCHANGED broker

Next ==
    \/ CreateBroker
    \/ Buy
    \/ Sell
    \/ GetCurrentAllocation
    \/ GetAccountCash
    \/ Resume

Spec == Init /\ [][Next]_vars

(***************************************************************************)
(* Reading the outcome of the last operation                               *)
(***************************************************************************)
IsBuy == lastOp.op = "buy"

IsSell == lastOp.op = "sell"

IsCreate == lastOp.op = "create_broker"

\* the orders handed to place_order_v2 during the last operation
OrderCalls == SelectSeq(lastOp.calls, LAMBDA c : c.api = "place_order_v2")

PositionCalls == SelectSeq(lastOp.calls, LAMBDA c : c.api = "get_account_position")

Succeeded(resp) == resp.kind = "resp" /\ resp.status_code = 200

\* the response carries a non-empty list whose first entry has a non-empty key
YieldsFirst(resp, key) ==
    /\ Succeeded(resp)
    /\ Len(resp.body) > 0
    /\ key \in DOMAIN resp.body[1]
    /\ resp.body[1][key] \notin {"", None}

\* buy and sell start with the instrument lookup
InstrumentResolved == YieldsFirst(lastOp.calls[1].resp, "instrument_id")

ReportedHoldings(resp) ==
    IF Succeeded(resp) /\ "holdings" \in DOMAIN resp.body THEN resp.body.holdings ELSE <<>>

\* positions of the holdings in symbol whose last price is positive
PricedAt(resp, symbol) ==
    {i \in 1..Len(ReportedHoldings(resp)) :
        LET h == ReportedHoldings(resp)[i] IN
        /\ "symbol" \in DOMAIN h /\ h.symbol = symbol
        /\ "last_price" \in DOMAIN h /\ h.last_price[1] > 0}

FirstOf(S) == CHOOSE i \in S : \A j \in S : i <= j

FirstPrice(resp, symbol) ==
    ReportedHoldings(resp)[FirstOf(PricedAt(resp, symbol))].last_price

\* floor(a / b) for fractions a and b > 0
Floor(a, b) == (a[1] * b[2]) \div (a[2] * b[1])

Less(a, b) == a[1] * b[2] < b[1] * a[2]

FixedEstimate == <<50, 1>>

(***************************************************************************)
(* Factory and construction                                                *)
(***************************************************************************)
Present(s) == s \notin {"", None}

ValidConfig(c) ==
    \/ c.broker_type = "alpaca" /\ Present(c.alpaca_api_key) /\ Present(c.alpaca_api_secret)
    \/ c.broker_type = "robinhood" /\ Present(c.robinhood_username)
                                   /\ Present(c.robinhood_password)
    \/ c.broker_type = "webull" /\ Present(c.webull_app_key) /\ Present(c.webull_app_secret)

AdapterOf(type) ==
    CASE type = "alpaca"    -> "AlpacaBroker"
      [] type = "robinhood" -> "RobinhoodBroker"
      [] type = "webull"    -> "WebullBroker"

\* C8: create_broker validates before it constructs: an unrecognized
\* broker_type, or a recognized one with an absent or empty credential, fails
\* with ValueError, no adapter constructor is invoked and no vendor call is
\* made; otherwise exactly the adapter of that type is constructed.
C8_ValidateBeforeConstruct ==
    IsCreate =>
        IF ValidConfig(lastOp.config)
        THEN lastOp.constructed = <<AdapterOf(lastOp.config.broker_type)>>
        ELSE /\ lastOp.exc = "ValueError"
             /\ lastOp.constructed = <<>>
             /\ lastOp.calls = <<>>

C8_Witness ==
    /\ IsCreate
    /\ lastOp.config.broker_type = "webull"
    /\ lastOp.config.webull_app_key = "k"
    /\ lastOp.config.webull_app_secret = ""
    /\ lastOp.exc = "ValueError"
    /\ lastOp.constructed = <<>>

\* C9: construction resolves the account identifier in priority order: an
\* explicit non-empty account_id is used and no lookup is called; else the
\* first entry's account_id of a successful non-empty app-subscriptions
\* response is used and the account list is not called; else the first
\* entry's account_id of a successful non-empty account-list response; else
\* construction fails with ValueError.  An exception of either lookup leaves
\* construction, and a failed construction returns no adapter.
C9_AccountIdPriority ==
    (IsCreate /\ lastOp.constructed = <<"WebullBroker">>) =>
        LET explicit == lastOp.config.webull_account_id
            calls    == lastOp.calls
        IN
        /\ lastOp.exc # NoExc => lastOp.ret = None
        /\ IF Present(explicit)
           THEN calls = <<>> /\ lastOp.exc = NoExc /\ lastOp.ret = explicit
           ELSE
             /\ Len(calls) >= 1
             /\ calls[1].api = "get_app_subscriptions"
             /\ IF calls[1].resp.kind = "raise"
                THEN Len(calls) = 1 /\ lastOp.exc = "VendorError"
                ELSE IF YieldsFirst(calls[1].resp, "account_id")
                THEN /\ Len(calls) = 1
                     /\ lastOp.exc = NoExc
                     /\ lastOp.ret = calls[1].resp.body[1].account_id
                ELSE
                  /\ Len(calls) = 2
                  /\ calls[2].api = "get_account_list"
                  /\ IF calls[2].resp.kind = "raise"
                     THEN lastOp.exc = "VendorError"
                     ELSE IF YieldsFirst(calls[2].resp, "account_id")
                     THEN /\ lastOp.exc = NoExc
                          /\ lastOp.ret = calls[2].resp.body[1].account_id
                     ELSE lastOp.exc = "ValueError"

C9_Witness ==
    /\ IsCreate
    /\ lastOp.constructed = <<"WebullBroker">>
    /\ Len(lastOp.calls) = 2
    /\ Succeeded(lastOp.calls[1].resp)
    /\ Len(lastOp.calls[1].resp.body) > 0
    /\ lastOp.exc = NoExc
    /\ lastOp.ret = "L1"

(***************************************************************************)
(* buy and sell                                                            *)
(***************************************************************************)
\* C1: buy, when the instrument resolves and the position lookup yields no
\* positive last price for the symbol, sizes the order with the fixed
\* estimate: it submits one BUY order of qty max(1, floor(amount / 50)) and
\* returns true when the vendor answers with success.
C1_EstimateFallback ==
    (IsBuy /\ InstrumentResolved /\ PricedAt(lastOp.calls[2].resp, lastOp.args.symbol) = {}) =>
        /\ Len(OrderCalls) = 1
        /\ OrderCalls[1].arg.stock_order.side = "BUY"
        /\ OrderCalls[1].arg.stock_order.qty =
               LET q == Floor(lastOp.args.amount, FixedEstimate) IN IF q >= 1 THEN q ELSE 1
        /\ Succeeded(OrderCalls[1].resp) => lastOp.ret = TRUE

\* C2: buy, when the instrument resolves and the position lookup reports a
\* holding in the symbol with last price P > 0 (the first such holding), and
\* floor(amount / P) >= 1, submits exactly one order: BUY, MARKET, DAY, the
\* adapter's account, the resolved instrument, qty = floor(amount / P).
C2_BuyAtPositionPrice ==
    (/\ IsBuy
     /\ InstrumentResolved
     /\ PricedAt(lastOp.calls[2].resp, lastOp.args.symbol) # {}
     /\ Floor(lastOp.args.amount, FirstPrice(lastOp.calls[2].resp, lastOp.args.symbol)) >= 1)
    =>
        /\ Len(OrderCalls) = 1
        /\ OrderCalls[1].arg.account_id = broker
        /\ OrderCalls[1].arg.stock_order.side = "BUY"
        /\ OrderCalls[1].arg.stock_order.order_type = "MARKET"
        /\ OrderCalls[1].arg.stock_order.tif = "DAY"
        /\ OrderCalls[1].arg.stock_order.instrument_id =
               lastOp.calls[1].resp.body[1].instrument_id
        /\ OrderCalls[1].arg.stock_order.qty =
               Floor(lastOp.args.amount,
                     FirstPrice(lastOp.calls[2].resp, lastOp.args.symbol))

\* buy("AAPL", 1000) with AAPL held at 100 (behind a holding at 0) orders 10
C2_Witness ==
    /\ IsBuy
    /\ lastOp.args = [symbol |-> "AAPL", amount |-> <<1000, 1>>]
    /\ InstrumentResolved
    /\ PricedAt(lastOp.calls[2].resp, "AAPL") = {2}
    /\ FirstPrice(lastOp.calls[2].resp, "AAPL") = <<100, 1>>
    /\ Len(OrderCalls) = 1
    /\ OrderCalls[1].arg.stock_order.qty = 10

\* C3: for every symbol and amount, if the amount is smaller than one share
\* at the price buy resolves (the position's positive last price, else the
\* fixed estimate), buy returns false and places no order.
C3_TooSmallNoOrder ==
    (IsBuy /\ InstrumentResolved) =>
        LET resp  == lastOp.calls[2].resp
            price == IF PricedAt(resp, lastOp.args.symbol) # {}
                     THEN FirstPrice(resp, lastOp.args.symbol)
                     ELSE FixedEstimate
        IN  Less(lastOp.args.amount, price) =>
                lastOp.ret = FALSE /\ Len(OrderCalls) = 0

\* C4: when the instrument lookup fails (non-success status, empty list, an
\* entry without instrument_id, or an exception), buy and sell return false,
\* submit no order, and buy makes no position lookup.
C4_UnresolvedInstrument ==
    ((IsBuy \/ IsSell) /\ ~InstrumentResolved) =>
        /\ lastOp.ret = FALSE
        /\ lastOp.exc = NoExc
        /\ Len(OrderCalls) = 0
        /\ Len(PositionCalls) = 0

C4_Witness ==
    /\ IsBuy
    /\ lastOp.calls[1].api = "get_instrument"
    /\ lastOp.calls[1].resp.kind = "resp"
    /\ lastOp.calls[1].resp.status_code = 500
    /\ Len(lastOp.calls[1].resp.body) > 0
    /\ lastOp.ret = FALSE
    /\ Len(lastOp.calls) = 1

C10_OrderQtyAtLeastOne ==
    (IsBuy \/ IsSell) =>
        \A i \in 1..Len(OrderCalls) :
            /\ OrderCalls[i].arg.stock_order.qty \in Int
            /\ OrderCalls[i].arg.stock_order.qty >= 1

(***************************************************************************)
(* Queries                                                                 *)
(***************************************************************************)
FieldOrder == <<"stock_power", "available_to_withdraw", "settled_cash", "total_cash">>

NonZeroAt(body, k) == FieldOrder[k] \in DOMAIN body /\ body[FieldOrder[k]][1] # 0

\* C6: get_account_cash raises on a non-success balance response; otherwise
\* it returns the first non-zero value among stock_power,
\* available_to_withdraw, settled_cash, total_cash (absent counts as zero)
\* and 0 when all four are absent or zero.
C6_FirstNonZeroCash ==
    (lastOp.op = "get_account_cash" /\ lastOp.calls[1].resp.kind = "resp") =>
        LET resp == lastOp.calls[1].resp IN
        IF resp.status_code # 200
        THEN lastOp.exc # NoExc
        ELSE /\ lastOp.exc = NoExc
             /\ \/ /\ \A k \in 1..4 : ~NonZeroAt(resp.body, k)
                   /\ lastOp.ret = <<0, 1>>
                \/ \E k \in 1..4 :
                      /\ NonZeroAt(resp.body, k)
                      /\ \A j \in 1..(k - 1) : ~NonZeroAt(resp.body, j)
                      /\ lastOp.ret = resp.body[FieldOrder[k]]

\* {settled_cash: 500, total_cash: 1000} yields 500
C6_Witness ==
    /\ lastOp.op = "get_account_cash"
    /\ Succeeded(lastOp.calls[1].resp)
    /\ lastOp.calls[1].resp.body = [settled_cash |-> <<500, 1>>, total_cash |-> <<1000, 1>>]
    /\ lastOp.ret = <<500, 1>>

\* the holdings that get_current_allocation must report
Reportable(h) ==
    /\ "qty" \in DOMAIN h /\ h.qty[1] > 0
    /\ "symbol" \in DOMAIN h /\ h.symbol # ""
    /\ "last_price" \in DOMAIN h /\ h.last_price[1] > 0

\* C7: get_current_allocation returns an empty sequence, without raising, on
\* a non-success position response and lets an exception of the request
\* through; otherwise it returns, in vendor order, exactly one
\* Allocation(symbol, qty, last_price, market_value) per holding with qty > 0,
\* a non-empty symbol and last_price > 0, and nothing for any other holding.
C7_AllocationFilter ==
    lastOp.op = "get_current_allocation" =>
        LET resp == lastOp.calls[1].resp IN
        IF resp.kind = "raise" THEN lastOp.exc # NoExc
        ELSE IF resp.status_code # 200 THEN lastOp.exc = NoExc /\ lastOp.ret = <<>>
        ELSE
          LET hs   == ReportedHoldings(resp)
              kept == {i \in 1..Len(hs) : Reportable(hs[i])}
          IN  /\ lastOp.exc = NoExc
              /\ Len(lastOp.ret) = Cardinality(kept)
              /\ \A i \in kept :
                    LET a == lastOp.ret[Cardinality({j \in kept : j <= i})] IN
                    /\ a.symbol = hs[i].symbol
                    /\ a.quantity = hs[i].qty
                    /\ a.current_price = hs[i].last_price
                    /\ a.market_value = IF "market_value" \in DOMAIN hs[i]
                                        THEN hs[i].market_value ELSE <<0, 1>>

\* a holding at price 0 is dropped, AAPL 10 @ 150 behind it is reported
C7_Witness ==
    /\ lastOp.op = "get_current_allocation"
    /\ Succeeded(lastOp.calls[1].resp)
    /\ Len(ReportedHoldings(lastOp.calls[1].resp)) = 2
    /\ "last_price" \in DOMAIN ReportedHoldings(lastOp.calls[1].resp)[1]
    /\ ReportedHoldings(lastOp.calls[1].resp)[1].last_price = <<0, 1>>
    /\ lastOp.ret = <<[symbol |-> "AAPL", quantity |-> <<10, 1>>,
                       current_price |-> <<150, 1>>, market_value |-> <<1500, 1>>]>>

====
